---- MODULE Spec2Model ----
(***************************************************************************)
(* Model of model_analyzer: the RecordAggregator (record_aggregator.py),   *)
(* and the Analyzer's profiling cycles (analyzer.py) around the DCGM       *)
(* monitor and the perf_analyzer.                                          *)
(*                                                                         *)
(*   AggSpec : one RecordAggregator under arbitrary sequences of calls.    *)
(*   ConfigSpec : one PerfAnalyzerConfig under arbitrary sequences of      *)
(*             assignments, reads and to_cli_string calls.                 *)
(*   Spec    : one Analyzer under arbitrary sequences of profiling cycles. *)
(***************************************************************************)
EXTENDS Integers, Sequences, FiniteSets, TLC

VARIABLES
    records,      \* AggSpec: RecordAggregator._records of the aggregator under test
    ret,          \* AggSpec: the last call on it: name, arguments, error, value
    analyzer,     \* Spec: the Analyzer's monitoring metrics, split into its tags
    pc,           \* Spec: position of the Analyzer inside the current cycle
    cycle,        \* Spec: the locals of the cycle that is running
    monitors,     \* Spec: every DCGMMonitor created so far, one per cycle
    tables,       \* Spec: Analyzer._tables, the rows of the three output tables
    outcome,      \* Spec: how each finished cycle reached its caller
    events,       \* Spec: the calls the current cycle has made, in order
    perf_config   \* ConfigSpec: a PerfAnalyzerConfig, the values its caller has
                  \* assigned, and the last call on it

aggVars == <<records, ret>>
anaVars == <<analyzer, pc, cycle, monitors, tables, outcome, events>>
cfgVars == <<perf_config>>
vars == <<records, ret, analyzer, pc, cycle, monitors, tables, outcome, events, perf_config>>

----------------------------------------------------------------------------
(* Bounds *)

MaxValue == 2        \* record values are 1..MaxValue
MaxRecords == 3      \* AggSpec: records inserted into the aggregator
MaxTypes == 2        \* AggSpec: length of a record_types / filters argument
MaxCycles == 2       \* Spec: profiling cycles run by one Analyzer
MaxSamples == 1      \* Spec: samples one monitor takes while recording
MaxPerfRecords == 2  \* Spec: records one perf_analyzer run returns

----------------------------------------------------------------------------
(* Records (record/gpu_used_memory.py and its siblings) *)

None == "None"

GPUTypes == {"GPUUsedMemory", "GPUFreeMemory"}
PerfTypes == {"PerfThroughput", "PerfLatency"}
RecordTypes == GPUTypes \cup PerfTypes

Devices == {"gpu0", "gpu1"}
Values == 1..MaxValue

\* GPURecord(device, value, timestamp); the timestamp takes no part in any
\* operation of the aggregator and is left out.
GPURecord(t, d, v) == [type |-> t, device |-> d, value |-> v]
PerfRecord(t, v) == [type |-> t, device |-> None, value |-> v]

\* isinstance(record, Record)
IsRecord(x) == x.type \in RecordTypes

\* An object that is not a Record
NotARecord == [type |-> "str", device |-> None, value |-> 0]

----------------------------------------------------------------------------
(* Python dicts: insertion-ordered, here sequences of entries [k, v].       *)

Range(s) == {s[i] : i \in DOMAIN s}

DictKeys(d) == {d[i].k : i \in DOMAIN d}
DictHas(d, key) == \E i \in DOMAIN d : d[i].k = key
DictIndex(d, key) == CHOOSE i \in DOMAIN d : d[i].k = key
DictGet(d, key) == d[DictIndex(d, key)].v
DictKeyList(d) == [i \in DOMAIN d |-> d[i].k]

\* self._records[key] on a defaultdict(list): a missing key is inserted with
\* a new empty list before the lookup returns.
DefaultDictTouch(d, key) ==
    IF DictHas(d, key) THEN d ELSE Append(d, [k |-> key, v |-> <<>>])

\* aggregated_records[key] = val
DictSet(d, key, val) ==
    IF DictHas(d, key)
    THEN [d EXCEPT ![DictIndex(d, key)] = [k |-> key, v |-> val]]
    ELSE Append(d, [k |-> key, v |-> val])

\* An optional list argument: omitted (None) or a list
Omitted == [none |-> TRUE, list |-> <<>>]
Given(l) == [none |-> FALSE, list |-> l]

\* not x, for x a list or None
Falsy(x) == x.none \/ x.list = <<>>

----------------------------------------------------------------------------
(* Callables handed to the aggregator *)

\* reduce_func: max (the default), min, sum
ReduceFns == {"max", "min", "sum"}

RECURSIVE SeqMax(_)
SeqMax(s) ==
    IF Len(s) = 1 THEN s[1]
    ELSE LET m == SeqMax(Tail(s)) IN IF s[1] >= m THEN s[1] ELSE m

RECURSIVE SeqMin(_)
SeqMin(s) ==
    IF Len(s) = 1 THEN s[1]
    ELSE LET m == SeqMin(Tail(s)) IN IF s[1] <= m THEN s[1] ELSE m

RECURSIVE SeqSum(_)
SeqSum(s) == IF s = <<>> THEN 0 ELSE s[1] + SeqSum(Tail(s))

\* reduce_func=max: the reducer of a call that names none
Default == "default"
DefaultReduceFuncIsMin(reduce_func) == IF reduce_func = Default THEN "min" ELSE reduce_func

DefaultReduceFunc(reduce_func) == IF reduce_func = Default THEN "max" ELSE reduce_func

\* reduce_func(values): max and min of an empty list raise ValueError
Reduce(fn, values) ==
    IF fn \in {"max", "min"} /\ values = <<>> THEN [err |-> "ValueError", val |-> None]
    ELSE IF fn = "max" THEN [err |-> "none", val |-> SeqMax(values)]
    ELSE IF fn = "min" THEN [err |-> "none", val |-> SeqMin(values)]
    ELSE [err |-> "none", val |-> SeqSum(values)]

\* groupby_criteria: gpu_device_id of analyzer.py, and the record's value
KeyFns == {"gpu_device_id", "value"}
KeyOf(fn, r) == IF fn = "gpu_device_id" THEN r.device ELSE r.value

\* filters: a threshold on the value, or groupby's own
\* lambda record: groupby_criteria(record) == field_value
ValueAbove(n) == [kind |-> "value_above", fn |-> None, arg |-> n]
KeyEquals(fn, key) == [kind |-> "key_equals", fn |-> fn, arg |-> key]
Holds(f, r) ==
    IF f.kind = "value_above" THEN r.value > f.arg ELSE KeyOf(f.fn, r) = f.arg

----------------------------------------------------------------------------
(* RecordAggregator (record/record_aggregator.py).  An aggregator is its   *)
(* _records dict.  Every operator returns the dict after the call (self),  *)
(* the exception the call ended in (err, "none" when it returned) and the  *)
(* value it returned.                                                      *)

\* record_aggregator.py imports Record, defaultdict and itertools only: the
\* name TritonModelAnalyzerException is unbound in the module, and each
\* `raise TritonModelAnalyzerException(...)` ends in a NameError.
RaiseTritonModelAnalyzerException == "NameError"

EmptyAggregator == <<>>

Bucket(recs, t) == DictGet(recs, t)

\* insert that appends to the first bucket there is, whatever the record type
InsertIntoFirstBucket(recs, record) ==
    IF IsRecord(record)
    THEN LET touched == DefaultDictTouch(recs, record.type)
         IN  [self |-> DictSet(touched, touched[1].k, Append(touched[1].v, record)),
              err |-> "none"]
    ELSE [self |-> recs, err |-> RaiseTritonModelAnalyzerException]

Insert(recs, record) ==
    IF IsRecord(record)
    THEN LET touched == DefaultDictTouch(recs, record.type)
         IN  [self |-> DictSet(touched, record.type,
                               Append(Bucket(touched, record.type), record)),
              err |-> "none"]
    ELSE [self |-> recs, err |-> RaiseTritonModelAnalyzerException]

RECURSIVE InsertAll(_, _)
InsertAll(recs, rs) ==
    IF rs = <<>> THEN recs ELSE InsertAll(Insert(recs, rs[1]).self, Tail(rs))

\* add_key: the bucket becomes the list object handed in
AddKey(recs, record_type, rs) == DictSet(recs, record_type, rs)

\* insert into aggregator a while aggregator b holds, for the record types
\* in shared, the very list objects that are a's buckets: the append of line
\* 39 is to the one list both dicts refer to.  A bucket that insert creates
\* is a new list, in a alone.
InsertShared(a, b, shared, record) ==
    LET r == Insert(a, record)
    IN  [self |-> r.self, err |-> r.err,
         other |-> IF r.err = "none" /\ record.type \in shared /\ DictHas(a, record.type)
                   THEN DictSet(b, record.type, Bucket(r.self, record.type))
                   ELSE b]

\* filter_records, record_types only: the loop of lines 94-96.  `out` is
\* the new aggregator, `self` the one filtered.
RECURSIVE FilterByTypes(_, _, _)
FilterByTypes(self, out, record_types) ==
    IF record_types = <<>> THEN [self |-> self, out |-> out]
    ELSE LET touched == DefaultDictTouch(self, record_types[1])
         IN  FilterByTypes(touched,
                           AddKey(out, record_types[1], Bucket(touched, record_types[1])),
                           Tail(record_types))

\* the records of a bucket a filter accepts, in order (lines 113-115)
RECURSIVE AcceptedFirstOnly(_, _)
AcceptedFirstOnly(rs, f) ==
    IF rs = <<>> THEN <<>>
    ELSE IF Holds(f, rs[1]) THEN <<rs[1]>>
    ELSE AcceptedFirstOnly(Tail(rs), f)

RECURSIVE Accepted(_, _)
Accepted(rs, f) ==
    IF rs = <<>> THEN <<>>
    ELSE IF Holds(f, rs[1]) THEN <<rs[1]>> \o Accepted(Tail(rs), f)
    ELSE Accepted(Tail(rs), f)

\* filter_records, record_types and filters: the loop of lines 112-115
RECURSIVE FilterByCriteria(_, _, _, _)
FilterByCriteria(self, out, record_types, filters) ==
    IF record_types = <<>> \/ filters = <<>> THEN [self |-> self, out |-> out]
    ELSE LET touched == DefaultDictTouch(self, record_types[1])
         IN  FilterByCriteria(
                 touched,
                 InsertAll(out, Accepted(Bucket(touched, record_types[1]), filters[1])),
                 Tail(record_types), Tail(filters))

\* filter_records without arguments, with a loop that leaves out the buckets
\* that are empty
RECURSIVE FilterNoArgsSkipsEmpty(_, _)
FilterNoArgsSkipsEmpty(out, items) ==
    IF items = <<>> THEN out
    ELSE IF items[1].v = <<>> THEN FilterNoArgsSkipsEmpty(out, Tail(items))
    ELSE FilterNoArgsSkipsEmpty(AddKey(out, items[1].k, items[1].v), Tail(items))

\* filter_records without arguments: the loop of lines 88-89 over
\* self._records.items()
RECURSIVE FilterNoArgs(_, _)
FilterNoArgs(out, items) ==
    IF items = <<>> THEN out
    ELSE FilterNoArgs(AddKey(out, items[1].k, items[1].v), Tail(items))

\* filter_records.  val is the returned aggregator; shared names the buckets
\* of val that are the very list objects of self (add_key stores the list
\* it is given, it does not copy it).
FilterRecords(recs, record_types, filters) ==
    IF Falsy(record_types) /\ Falsy(filters)
    THEN [self |-> recs, err |-> "none", val |-> FilterNoArgs(EmptyAggregator, recs),
          shared |-> DictKeys(recs)]
    ELSE IF ~Falsy(record_types) /\ Falsy(filters)
    THEN LET r == FilterByTypes(recs, EmptyAggregator, record_types.list)
         IN  [self |-> r.self, err |-> "none", val |-> r.out, shared |-> DictKeys(r.out)]
    ELSE IF ~Falsy(filters) /\ Falsy(record_types)
    THEN [self |-> recs, err |-> RaiseTritonModelAnalyzerException,
          val |-> None, shared |-> {}]
    ELSE IF Len(record_types.list) # Len(filters.list)
    THEN [self |-> recs, err |-> RaiseTritonModelAnalyzerException,
          val |-> None, shared |-> {}]
    ELSE LET r == FilterByCriteria(recs, EmptyAggregator, record_types.list, filters.list)
         IN  [self |-> r.self, err |-> "none", val |-> r.out, shared |-> {}]

\* record_types()
RecordTypesOf(recs) == DictKeyList(recs)

\* total()
RECURSIVE SumLens(_)
SumLens(recs) == IF recs = <<>> THEN 0 ELSE Len(recs[1].v) + SumLens(Tail(recs))

Total(recs, record_type) ==
    IF record_type # None
    THEN IF ~DictHas(recs, record_type)
         THEN [self |-> recs, err |-> RaiseTritonModelAnalyzerException, val |-> None]
         ELSE [self |-> recs, err |-> "none", val |-> Len(Bucket(recs, record_type))]
    ELSE [self |-> recs, err |-> "none", val |-> SumLens(recs)]

\* [record.value() for record in records]
ValuesOf(rs) == [i \in DOMAIN rs |-> rs[i].value]

\* aggregate: the loop of lines 217-221; a failing reduce_func ends the call
RECURSIVE AggregateLoop(_, _, _, _)
AggregateLoop(self, acc, record_types, reduce_func) ==
    IF record_types = <<>> THEN [self |-> self, err |-> "none", val |-> acc]
    ELSE LET touched == DefaultDictTouch(self, record_types[1])
             r == Reduce(DefaultReduceFunc(reduce_func),
                         ValuesOf(Bucket(touched, record_types[1])))
         IN  IF r.err # "none"
             THEN [self |-> touched, err |-> r.err, val |-> None]
             ELSE AggregateLoop(touched, DictSet(acc, record_types[1], r.val),
                                Tail(record_types), reduce_func)

Aggregate(recs, record_types, reduce_func) ==
    AggregateLoop(recs, <<>>,
                  IF Falsy(record_types) THEN RecordTypesOf(recs) ELSE record_types.list,
                  reduce_func)

\* groupby.  val is the returned dict as a function from the keys to the
\* reduced values (the dict is filled in the iteration order of a set).
GroupBy(recs, record_type, groupby_criteria, reduce_func) ==
    LET first == FilterRecords(recs, Given(<<record_type>>), Omitted)
        rs == Bucket(first.val, record_type)
        field_values == {KeyOf(groupby_criteria, rs[i]) : i \in DOMAIN rs}
        Group(field_value) ==
            Aggregate(FilterRecords(first.self, Given(<<record_type>>),
                                    Given(<<KeyEquals(groupby_criteria, field_value)>>)).val,
                      Given(<<record_type>>), reduce_func)
    IN  IF \E fv \in field_values : Group(fv).err # "none"
        THEN [self |-> first.self,
              err |-> Group(CHOOSE fv \in field_values : Group(fv).err # "none").err,
              val |-> None]
        ELSE [self |-> first.self, err |-> "none",
              val |-> [fv \in field_values |-> DictGet(Group(fv).val, record_type)]]

----------------------------------------------------------------------------
(* AggSpec: one RecordAggregator, created empty, under any sequence of     *)
(* calls.  ret is the call that has just ended: its name, arguments,       *)
(* exception and value; the caller takes it (AggReturn) before the next.   *)

\* the record types and records the calls are drawn from
AggTypes == {"GPUUsedMemory", "PerfThroughput"}
AggRecords ==
    {GPURecord("GPUUsedMemory", d, v) : d \in Devices, v \in Values}
        \cup {PerfRecord("PerfThroughput", v) : v \in Values}

SeqsUpTo(S, n) == UNION {[1..m -> S] : m \in 0..n}

\* record_types arguments: omitted, or a list of record types
TypeArgs == {Omitted} \cup {Given(l) : l \in SeqsUpTo(AggTypes, MaxTypes)}

\* filters arguments: omitted, or a list of callables
AggFilters == {ValueAbove(0), ValueAbove(1)}
FilterArgs == {Omitted} \cup {Given(l) : l \in SeqsUpTo(AggFilters, MaxTypes)}

\* groupby_criteria that apply to a record type: only GPU records have a device
KeyFnsOf(t) == IF t \in GPUTypes THEN KeyFns ELSE {"value"}

Call(op, a1, a2, a3, r) ==
    [op |-> op, a1 |-> a1, a2 |-> a2, a3 |-> a3, err |-> r.err, val |-> r.val]

NoCall == Call("none", None, None, None, [err |-> "none", val |-> None])

\* a call starts when the caller has taken the result of the one before
Ready == ret.op = "none" /\ UNCHANGED <<anaVars, cfgVars>>

AggInsert ==
    /\ Ready
    /\ \E x \in AggRecords \cup {NotARecord} :
        /\ IsRecord(x) => SumLens(records) < MaxRecords
        /\ LET r == Insert(records, x)
           IN  /\ records' = r.self
               /\ ret' = Call("insert", x, None, None, [err |-> r.err, val |-> None])

AggFilterRecords ==
    /\ Ready
    /\ \E record_types \in TypeArgs, filters \in FilterArgs :
        LET r == FilterRecords(records, record_types, filters)
        IN  /\ records' = r.self
            /\ ret' = Call("filter_records", record_types, filters, r.shared, r)

AggGroupBy ==
    /\ Ready
    /\ \E record_type \in AggTypes, reduce_func \in ReduceFns \cup {Default} :
        \E groupby_criteria \in KeyFnsOf(record_type) :
            LET r == GroupBy(records, record_type, groupby_criteria, reduce_func)
            IN  /\ records' = r.self
                /\ ret' = Call("groupby", record_type, groupby_criteria, reduce_func, r)

AggRecordTypes ==
    /\ Ready
    /\ records' = records
    /\ ret' = Call("record_types", None, None, None,
                   [err |-> "none", val |-> RecordTypesOf(records)])

AggTotal ==
    /\ Ready
    /\ \E record_type \in AggTypes \cup {None} :
        LET r == Total(records, record_type)
        IN  /\ records' = r.self
            /\ ret' = Call("total", record_type, None, None, r)

AggAggregate ==
    /\ Ready
    /\ \E record_types \in TypeArgs, reduce_func \in ReduceFns \cup {Default} :
        LET r == Aggregate(records, record_types, reduce_func)
        IN  /\ records' = r.self
            /\ ret' = Call("aggregate", record_types, reduce_func, None, r)

\* the caller holds the aggregator a filter_records without filters has
\* just returned
HoldsFiltered ==
    /\ ret.op = "filter_records" /\ ret.err = "none" /\ Falsy(ret.a2)
    /\ UNCHANGED <<anaVars, cfgVars>>

\* ... and inserts a record into it
AggInsertIntoFiltered ==
    /\ HoldsFiltered
    /\ \E x \in AggRecords :
        /\ SumLens(records) < MaxRecords
        /\ LET r == InsertShared(ret.val, records, ret.a3, x)
           IN  /\ records' = r.other
               /\ ret' = Call("insert into filtered", x, None, ret.a3,
                              [err |-> r.err, val |-> r.self])

\* ... and inserts a record into the aggregator that was filtered
AggInsertIntoSource ==
    /\ HoldsFiltered
    /\ \E x \in AggRecords :
        /\ SumLens(records) < MaxRecords
        /\ LET r == InsertShared(records, ret.val, ret.a3, x)
           IN  /\ records' = r.self
               /\ ret' = Call("insert into source", x, None, ret.a3,
                              [err |-> r.err, val |-> r.other])

\* the caller has the result; the aggregator is ready for the next call
AggReturn ==
    /\ ret.op # "none"
    /\ ret' = NoCall
    /\ records' = records
    /\ UNCHANGED <<anaVars, cfgVars>>

AggNext ==
    \/ AggInsert
    \/ AggFilterRecords
    \/ AggGroupBy
    \/ AggRecordTypes
    \/ AggTotal
    \/ AggAggregate
    \/ AggInsertIntoFiltered
    \/ AggInsertIntoSource
    \/ AggReturn

----------------------------------------------------------------------------
(* PerfAnalyzerConfig (perf_analyzer/perf_config.py) *)

\* self._args, in the order of the dict literal
ArgKeyList ==
    <<"async", "sync", "measurement-interval", "concurrency-range",
      "request-rate-range", "request-distribution", "request-intervals",
      "binary-search", "num-of-sequence", "latency-threshold", "max-threads",
      "stability-percentage", "max-trials", "percentile", "input-data",
      "shared-memory", "output-shared-memory-size", "shape", "sequence-length",
      "string-length", "string-data">>

\* self._options and self._verbose, in the order of the dict literals
OptionList == <<"-m", "-x", "-b", "-u", "-i", "-f", "-H">>
VerboseList == <<"-v", "-v -v">>

\* self._input_to_options and self._input_to_verbose
InputToOptions ==
    <<[k |-> "model-name", v |-> "-m"], [k |-> "model-version", v |-> "-x"],
      [k |-> "batch-size", v |-> "-b"], [k |-> "url", v |-> "-u"],
      [k |-> "protocol", v |-> "-i"], [k |-> "latency-report-file", v |-> "-f"],
      [k |-> "streaming", v |-> "-H"]>>
InputToVerbose ==
    <<[k |-> "verbose", v |-> "-v"], [k |-> "extra-verbose", v |-> "-v -v"]>>

AllNone(keys) == [i \in DOMAIN keys |-> [k |-> keys[i], v |-> None]]

\* PerfAnalyzerConfig()
PerfAnalyzerConfig ==
    [args |-> AllNone(ArgKeyList), options |-> AllNone(OptionList),
     verbose |-> AllNone(VerboseList)]

\* config[key] = value that takes an unsupported key without a word
SetItemIgnoresUnsupportedKey(config, key, value) ==
    IF DictHas(config.args, key)
    THEN [config |-> [config EXCEPT !.args = DictSet(config.args, key, value)],
          err |-> "none"]
    ELSE IF DictHas(InputToOptions, key)
    THEN [config |-> [config EXCEPT !.options =
                          DictSet(config.options, DictGet(InputToOptions, key), value)],
          err |-> "none"]
    ELSE IF DictHas(InputToVerbose, key)
    THEN [config |-> [config EXCEPT !.verbose =
                          DictSet(config.verbose, DictGet(InputToVerbose, key), value)],
          err |-> "none"]
    ELSE [config |-> config, err |-> "none"]

\* config[key] = value
SetItem(config, key, value) ==
    IF DictHas(config.args, key)
    THEN [config |-> [config EXCEPT !.args = DictSet(config.args, key, value)],
          err |-> "none"]
    ELSE IF DictHas(InputToOptions, key)
    THEN [config |-> [config EXCEPT !.options =
                          DictSet(config.options, DictGet(InputToOptions, key), value)],
          err |-> "none"]
    ELSE IF DictHas(InputToVerbose, key)
    THEN [config |-> [config EXCEPT !.verbose =
                          DictSet(config.verbose, DictGet(InputToVerbose, key), value)],
          err |-> "none"]
    ELSE [config |-> config, err |-> "TritonModelAnalyzerException"]

\* config[key]
GetItem(cfg, key) ==
    IF DictHas(cfg.args, key)
    THEN [err |-> "none", val |-> DictGet(cfg.args, key)]
    ELSE IF DictHas(InputToOptions, key)
    THEN [err |-> "none", val |-> DictGet(cfg.options, DictGet(InputToOptions, key))]
    ELSE IF DictHas(InputToVerbose, key)
    THEN [err |-> "none", val |-> DictGet(cfg.verbose, DictGet(InputToVerbose, key))]
    ELSE [err |-> "TritonModelAnalyzerException", val |-> None]

\* Python values a caller assigns: None, the int 0, the empty str, and the
\* str '4'.  Every other value of the model is a non-empty str.
PyInt0 == "int(0)"
PyEmptyStr == ""
ConfigValues == {None, PyInt0, PyEmptyStr, "4"}

\* `if v`: None, 0 and '' are false
Truthy(v) == v \notin {None, PyInt0, PyEmptyStr}

\* the text an f-string puts for a value
Str(v) == IF v = PyInt0 THEN "0" ELSE v

\* the items of a dict whose value is true: `for k, v in d.items() if v`
TrueItems(d) == SelectSeq(d, LAMBDA e : Truthy(e.v))

\* lines 87-89: the entries of the options, the verbose flags, the arguments
OptionEntries(d) == [i \in DOMAIN d |-> d[i].k \o " " \o Str(d[i].v)]
VerboseEntries(d) == [i \in DOMAIN d |-> d[i].k]
ArgEntries(d) == [i \in DOMAIN d |-> "--" \o d[i].k \o "=" \o Str(d[i].v)]

\* ' '.join(args)
RECURSIVE Join(_)
Join(args) ==
    IF args = <<>> THEN ""
    ELSE IF Len(args) = 1 THEN args[1]
    ELSE args[1] \o " " \o Join(Tail(args))

\* to_cli_string: single dashed options, then verbose flags, then main args
ToCliString(cfg) ==
    Join(OptionEntries(TrueItems(cfg.options)) \o
         VerboseEntries(TrueItems(cfg.verbose)) \o
         ArgEntries(TrueItems(cfg.args)))

----------------------------------------------------------------------------
(* ConfigSpec: one PerfAnalyzerConfig under any sequence of assignments,   *)
(* reads and to_cli_string calls.  config.assigned is the caller's record  *)
(* of the value it last assigned to each key (None from the constructor).  *)

\* the keys the calls are drawn from; "gpus" is not a key of the config
ConfigKeys ==
    {"model-name", "batch-size", "verbose", "concurrency-range",
     "latency-threshold", "gpus"}

ConfigCall(op, key, value, r) ==
    [op |-> op, key |-> key, value |-> value, err |-> r.err, val |-> r.val]

ConfigInit ==
    [obj |-> PerfAnalyzerConfig,
     assigned |-> [k \in ConfigKeys |-> None],
     call |-> ConfigCall("none", None, None, [err |-> "none", val |-> None])]

ConfigSetItem ==
    /\ \E key \in ConfigKeys, value \in ConfigValues :
        LET r == SetItem(perf_config.obj, key, value)
        IN  perf_config' = [obj |-> r.config,
                       assigned |-> IF r.err = "none"
                                    THEN [perf_config.assigned EXCEPT ![key] = value]
                                    ELSE perf_config.assigned,
                       call |-> ConfigCall("setitem", key, value,
                                           [err |-> r.err, val |-> None])]
    /\ UNCHANGED <<anaVars, aggVars>>

ConfigGetItem ==
    /\ \E key \in ConfigKeys :
        perf_config' = [perf_config EXCEPT !.call =
                       ConfigCall("getitem", key, None, GetItem(perf_config.obj, key))]
    /\ UNCHANGED <<anaVars, aggVars>>

ConfigToCliString ==
    /\ perf_config' = [perf_config EXCEPT !.call =
                      ConfigCall("to_cli_string", None, None,
                                 [err |-> "none", val |-> ToCliString(perf_config.obj)])]
    /\ UNCHANGED <<anaVars, aggVars>>

ConfigNext ==
    \/ ConfigSetItem
    \/ ConfigGetItem
    \/ ConfigToCliString

----------------------------------------------------------------------------
(* Analyzer (analyzer.py) *)

\* Analyzer.__init__: the metrics split into DCGM and perf_analyzer tags
DcgmTags(monitoring_metrics) == SelectSeq(monitoring_metrics, LAMBDA m : m \in GPUTypes)
PerfTags(monitoring_metrics) ==
    SelectSeq(monitoring_metrics, LAMBDA m : m \notin GPUTypes /\ m \in PerfTypes)

\* header(): the label of GPUUsedMemory; the type name stands for the label
\* of each other record type
Header(t) == IF t = "GPUUsedMemory" THEN "GPU Used Memory [MB]" ELSE t

ParamHeaders == <<"Model", "Batch", "Concurrency">>

\* lines 327-331: one header per metric that is not a DCGM tag
NotDcgmTags(monitoring_metrics) ==
    SelectSeq(monitoring_metrics, LAMBDA m : m \notin Range(DcgmTags(monitoring_metrics)))

CreateInferenceOutputTable(monitoring_metrics) ==
    [headers |-> ParamHeaders \o
                 [i \in DOMAIN NotDcgmTags(monitoring_metrics) |->
                      Header(NotDcgmTags(monitoring_metrics)[i])],
     rows |-> <<>>]

CreateGpuOutputTable(monitoring_metrics) ==
    [headers |-> ParamHeaders \o
                 [i \in DOMAIN DcgmTags(monitoring_metrics) |->
                      "Max " \o Header(DcgmTags(monitoring_metrics)[i])] \o
                 <<"GPU ID">>,
     rows |-> <<>>]

\* _create_perf_config: the first unsupported key ends the loop
RECURSIVE CreatePerfConfigLoop(_, _)
CreatePerfConfigLoop(config, params) ==
    IF params = <<>> THEN [config |-> config, err |-> "none"]
    ELSE LET r == SetItem(config, params[1].k, params[1].v)
         IN  IF r.err # "none" THEN r
             ELSE CreatePerfConfigLoop(r.config, Tail(params))

CreatePerfConfig(params) == CreatePerfConfigLoop(PerfAnalyzerConfig, params)

----------------------------------------------------------------------------
(* DCGMMonitor and PerfAnalyzer: what the Analyzer calls on them *)

\* DCGMMonitor(gpus, interval, tags): not recording until started.  stops
\* and destroys count the calls of stop_recording_metrics and destroy.
DCGMMonitor == [status |-> "created", stops |-> 0, destroys |-> 0, records |-> <<>>]

StartRecordingMetrics(m) == [m EXCEPT !.status = "recording", !.records = <<>>]

\* stop_recording_metrics returns m.records, the samples since the start
StopRecordingMetrics(m) == [m EXCEPT !.status = "stopped", !.stops = @ + 1]

Destroy(m) == [m EXCEPT !.status = "destroyed", !.destroys = @ + 1, !.records = <<>>]

\* the samples one monitoring interval can add
SampleRecords(dcgm_tags) ==
    {GPURecord(t, d, v) : t \in Range(dcgm_tags), d \in Devices, v \in Values}

\* what perf_analyzer.run(perf_tags) can return
PerfResults(perf_tags) ==
    SeqsUpTo({PerfRecord(t, v) : t \in Range(perf_tags), v \in Values}, MaxPerfRecords)

\* how perf_analyzer.run can fail: the binary is not found, or the
\* invocation fails
WorkloadFailures == {"FileNotFoundError", "InvocationFailed"}

----------------------------------------------------------------------------
(* Spec: one Analyzer under any sequence of profile_model and              *)
(* profile_server_only calls, with the monitor sampling in the background. *)

\* the list of metrics the Analyzer is constructed with
MonitoringConfigs ==
    {<<"GPUUsedMemory", "GPUFreeMemory", "PerfThroughput", "PerfLatency">>}

\* run_config dicts handed to profile_model
Params == <<[k |-> "model-name", v |-> "resnet50"],
            [k |-> "batch-size", v |-> "1"],
            [k |-> "concurrency-range", v |-> "4"]>>
RunConfigs ==
    {Params,
     Params \o <<[k |-> "gpus", v |-> "all"]>>,
     <<Params[1], Params[3]>>}

NoCycle ==
    [kind |-> "none", run_config |-> <<>>, perf_records |-> <<>>,
     dcgm_records |-> <<>>, records_groupby_gpu |-> <<>>, inference_metrics |-> <<>>]

Init ==
    /\ \E monitoring_metrics \in MonitoringConfigs :
        /\ analyzer = [monitoring_metrics |-> monitoring_metrics,
                       dcgm_tags |-> DcgmTags(monitoring_metrics),
                       perf_tags |-> PerfTags(monitoring_metrics)]
        /\ tables = [model_gpu_metrics |-> CreateGpuOutputTable(monitoring_metrics),
                     server_gpu_metrics |-> CreateGpuOutputTable(monitoring_metrics),
                     model_inference_metrics |->
                         CreateInferenceOutputTable(monitoring_metrics)]
    /\ pc = "idle"
    /\ cycle = NoCycle
    /\ monitors = <<>>
    /\ outcome = <<>>
    /\ events = <<>>
    /\ records = EmptyAggregator
    /\ ret = NoCall
    /\ perf_config = ConfigInit

\* the monitor of the running cycle is the last one created
Current == Len(monitors)

\* The cycle ends and its caller gets `result`.  The locals of the cycle
\* are gone, and with them the only handle on its monitor: whatever the
\* monitor still holds can no longer be read.
Finish(kind, result, ms) ==
    /\ pc' = "idle"
    /\ cycle' = NoCycle
    /\ outcome' = Append(outcome, [kind |-> kind, result |-> result])
    /\ monitors' = [ms EXCEPT ![Len(ms)].records = <<>>]

\* profile_model, lines 128-133: the monitor is created, then the perf config
ProfileModel ==
    /\ pc = "idle"
    /\ Len(monitors) < MaxCycles
    /\ \E run_config \in RunConfigs :
        LET c == CreatePerfConfig(run_config)
        IN  /\ events' = <<"DCGMMonitor", "PerfAnalyzerConfig">>
            /\ IF c.err # "none"
               THEN Finish("model", c.err, Append(monitors, DCGMMonitor))
               ELSE /\ cycle' = [NoCycle EXCEPT !.kind = "model",
                                                !.run_config = run_config]
                    /\ pc' = "profile"
                    /\ monitors' = Append(monitors, DCGMMonitor)
                    /\ UNCHANGED outcome
    /\ UNCHANGED <<analyzer, tables, aggVars, cfgVars>>

\* profile_server_only, lines 89-91
ProfileServerOnly ==
    /\ pc = "idle"
    /\ Len(monitors) < MaxCycles
    /\ cycle' = [NoCycle EXCEPT !.kind = "server"]
    /\ events' = <<"DCGMMonitor">>
    /\ pc' = "profile"
    /\ monitors' = Append(monitors, DCGMMonitor)
    /\ UNCHANGED <<analyzer, tables, outcome, aggVars, cfgVars>>

\* _profile, line 289
StartRecording ==
    /\ pc = "profile"
    /\ monitors' = [monitors EXCEPT ![Current] = StartRecordingMetrics(@)]
    /\ events' = Append(events, "start_recording_metrics")
    /\ pc' = "started"
    /\ UNCHANGED <<analyzer, cycle, tables, outcome, aggVars, cfgVars>>

\* the monitor's thread takes a sample while the monitor is recording
Sample ==
    /\ pc # "idle"
    /\ monitors[Current].status = "recording"
    /\ Len(monitors[Current].records) < MaxSamples
    /\ \E r \in SampleRecords(analyzer.dcgm_tags) :
        monitors' = [monitors EXCEPT ![Current].records = Append(@, r)]
    /\ UNCHANGED <<analyzer, pc, cycle, tables, outcome, events, aggVars, cfgVars>>

\* _profile, lines 290-292: perf_analyzer.run is entered
RunPerfAnalyzer ==
    /\ pc = "started"
    /\ cycle.kind = "model"
    /\ pc' = "running"
    /\ events' = Append(events, "run")
    /\ UNCHANGED <<analyzer, cycle, monitors, tables, outcome, aggVars, cfgVars>>

\* perf_analyzer.run returns its records
RunReturns ==
    /\ pc = "running"
    /\ \E perf_records \in PerfResults(analyzer.perf_tags) :
        cycle' = [cycle EXCEPT !.perf_records = perf_records]
    /\ pc' = "returned"
    /\ events' = Append(events, "run returned")
    /\ UNCHANGED <<analyzer, monitors, tables, outcome, aggVars, cfgVars>>

\* _profile, lines 293-295: only FileNotFoundError is caught and raised again
\* as a TritonModelAnalyzerException
Except(e) == IF e = "FileNotFoundError" THEN "TritonModelAnalyzerException" ELSE e

\* perf_analyzer.run raises: _profile and profile_model end with it
RunRaisesAfterRow ==
    /\ pc = "running"
    /\ \E e \in WorkloadFailures : Finish(cycle.kind, Except(e), monitors)
    /\ events' = Append(events, "run raised")
    /\ tables' = [tables EXCEPT !.model_inference_metrics.rows =
                                    Append(@, <<DictGet(cycle.run_config, "model-name")>>)]
    /\ UNCHANGED <<analyzer, aggVars, cfgVars>>

RunRaises ==
    /\ pc = "running"
    /\ \E e \in WorkloadFailures : Finish(cycle.kind, Except(e), monitors)
    /\ events' = Append(events, "run raised")
    /\ UNCHANGED <<analyzer, tables, aggVars, cfgVars>>

\* a server-only cycle that invokes perf_analyzer.run instead of sleeping
SleepInvokesRun ==
    /\ pc = "started"
    /\ cycle.kind = "server"
    /\ pc' = "running"
    /\ events' = Append(events, "run")
    /\ UNCHANGED <<analyzer, cycle, monitors, tables, outcome, aggVars, cfgVars>>

\* _profile, lines 297-298: time.sleep is entered
Sleep ==
    /\ pc = "started"
    /\ cycle.kind = "server"
    /\ pc' = "sleeping"
    /\ events' = Append(events, "sleep")
    /\ UNCHANGED <<analyzer, cycle, monitors, tables, outcome, aggVars, cfgVars>>

\* time.sleep returns; perf_records = []
SleepReturns ==
    /\ pc = "sleeping"
    /\ pc' = "returned"
    /\ events' = Append(events, "sleep returned")
    /\ UNCHANGED <<analyzer, cycle, monitors, tables, outcome, aggVars, cfgVars>>

\* _profile, line 299
StopRecordingBeforeReturn ==
    /\ pc \in {"running", "sleeping", "returned"}
    /\ cycle' = [cycle EXCEPT !.dcgm_records = monitors[Current].records]
    /\ monitors' = [monitors EXCEPT ![Current] = StopRecordingMetrics(@)]
    /\ events' = Append(events, "stop_recording_metrics")
    /\ pc' = "stopped"
    /\ UNCHANGED <<analyzer, tables, outcome, aggVars, cfgVars>>

StopRecording ==
    /\ pc = "returned"
    /\ cycle' = [cycle EXCEPT !.dcgm_records = monitors[Current].records]
    /\ monitors' = [monitors EXCEPT ![Current] = StopRecordingMetrics(@)]
    /\ events' = Append(events, "stop_recording_metrics")
    /\ pc' = "stopped"
    /\ UNCHANGED <<analyzer, tables, outcome, aggVars, cfgVars>>

\* _profile, lines 309-312: one groupby per DCGM tag, on the same aggregator
RECURSIVE GroupByTags(_, _, _)
GroupByTags(record_aggregator, acc, tags) ==
    IF tags = <<>> THEN [err |-> "none", val |-> acc]
    ELSE LET g == GroupBy(record_aggregator, tags[1], "gpu_device_id", Default)
         IN  IF g.err # "none" THEN [err |-> g.err, val |-> acc]
             ELSE GroupByTags(g.self, DictSet(acc, tags[1], g.val), Tail(tags))

\* _profile, lines 301-317: the records are inserted and reduced
ProfileResult(records_groupby_gpu, inference_metrics) ==
    [err |-> IF records_groupby_gpu.err # "none" THEN records_groupby_gpu.err
             ELSE inference_metrics.err,
     records_groupby_gpu |-> records_groupby_gpu.val,
     inference_metrics |-> inference_metrics.val]

\* _profile on aggregators that outlive the cycle and still hold a record
ProfileOnUsedAggregators(dcgm_tags, dcgm_records, perf_records) ==
    ProfileResult(
        GroupByTags(InsertAll(<<[k |-> "GPUUsedMemory",
                                 v |-> <<GPURecord("GPUUsedMemory", "gpu0", MaxValue)>>]>>,
                              dcgm_records),
                    <<>>, dcgm_tags),
        Aggregate(InsertAll(<<[k |-> "PerfThroughput",
                               v |-> <<PerfRecord("PerfThroughput", MaxValue)>>]>>,
                            perf_records),
                  Omitted, Default))

Profile(dcgm_tags, dcgm_records, perf_records) ==
    ProfileResult(
        GroupByTags(InsertAll(EmptyAggregator, dcgm_records), <<>>, dcgm_tags),
        Aggregate(InsertAll(EmptyAggregator, perf_records), Omitted, Default))

\* _profile returns to profile_model or profile_server_only, or raises
Returned(result) ==
    IF result.err # "none"
    THEN Finish(cycle.kind, result.err, monitors)
    ELSE /\ cycle' = [cycle EXCEPT !.records_groupby_gpu = result.records_groupby_gpu,
                                   !.inference_metrics = result.inference_metrics]
         /\ pc' = "profiled"
         /\ UNCHANGED <<monitors, outcome>>

ProfileReturns ==
    /\ pc = "stopped"
    /\ events' = Append(events, "insert")
    /\ Returned(Profile(analyzer.dcgm_tags, cycle.dcgm_records, cycle.perf_records))
    /\ UNCHANGED <<analyzer, tables, aggVars, cfgVars>>

\* the iteration orders a dict filled from a set of devices can have
DeviceOrders ==
    {o \in [1..Cardinality(Devices) -> Devices] :
        \A i, j \in DOMAIN o : o[i] = o[j] => i = j}

\* lines 96-98 and 143-145, for one metric: gpu_metrics[gpu_id].append(value)
RECURSIVE AppendMetric(_, _, _)
AppendMetric(gpu_metrics, metric, order) ==
    IF order = <<>> THEN gpu_metrics
    ELSE IF order[1] \in DOMAIN metric
    THEN LET touched == DefaultDictTouch(gpu_metrics, order[1])
         IN  AppendMetric(DictSet(touched, order[1],
                                  Append(DictGet(touched, order[1]),
                                         ToString(metric[order[1]]))),
                          metric, Tail(order))
    ELSE AppendMetric(gpu_metrics, metric, Tail(order))

RECURSIVE GpuMetrics(_, _, _)
GpuMetrics(gpu_metrics, records_groupby_gpu, order) ==
    IF records_groupby_gpu = <<>> THEN gpu_metrics
    ELSE GpuMetrics(AppendMetric(gpu_metrics, records_groupby_gpu[1].v, order),
                    Tail(records_groupby_gpu), order)

\* lines 100-106 and 147-156: one row per device
GpuRows(params, gpu_metrics) ==
    [i \in DOMAIN gpu_metrics |-> params \o gpu_metrics[i].v \o <<gpu_metrics[i].k>>]

\* lines 159-166: the values of inference_metrics in the order of its keys
InferenceRow(params, inference_metrics) ==
    params \o [i \in DOMAIN inference_metrics |-> ToString(inference_metrics[i].v)]

\* OutputTable.add_row
AddRows(table, rows) == [table EXCEPT !.rows = @ \o rows]

\* profile_model, lines 138-169
WriteModelRows ==
    /\ pc = "profiled"
    /\ cycle.kind = "model"
    /\ events' = Append(events, "add_row")
    /\ IF \E key \in {"model-name", "batch-size", "concurrency-range"} :
              ~DictHas(cycle.run_config, key)
       THEN /\ Finish("model", "KeyError", monitors)
            /\ UNCHANGED tables
       ELSE \E order \in DeviceOrders :
            LET params == <<DictGet(cycle.run_config, "model-name"),
                            DictGet(cycle.run_config, "batch-size"),
                            DictGet(cycle.run_config, "concurrency-range")>>
                gpu_metrics == GpuMetrics(<<>>, cycle.records_groupby_gpu, order)
            IN  /\ tables' =
                       [tables EXCEPT
                           !.model_gpu_metrics = AddRows(@, GpuRows(params, gpu_metrics)),
                           !.model_inference_metrics =
                               AddRows(@, <<InferenceRow(params, cycle.inference_metrics)>>)]
                /\ Finish("model", "ok", [monitors EXCEPT ![Current] = Destroy(@)])
    /\ UNCHANGED <<analyzer, aggVars, cfgVars>>

\* profile_server_only, lines 95-107
WriteServerRows ==
    /\ pc = "profiled"
    /\ cycle.kind = "server"
    /\ events' = Append(events, "add_row")
    /\ \E order \in DeviceOrders :
        LET params == <<"triton-server", "0", "0">>
            gpu_metrics == GpuMetrics(<<>>, cycle.records_groupby_gpu, order)
        IN  /\ tables' = [tables EXCEPT
                             !.server_gpu_metrics = AddRows(@, GpuRows(params, gpu_metrics))]
            /\ Finish("server", "ok", [monitors EXCEPT ![Current] = Destroy(@)])
    /\ UNCHANGED <<analyzer, aggVars, cfgVars>>

Next ==
    \/ ProfileModel
    \/ ProfileServerOnly
    \/ StartRecording
    \/ Sample
    \/ RunPerfAnalyzer
    \/ RunReturns
    \/ RunRaises
    \/ Sleep
    \/ SleepReturns
    \/ StopRecording
    \/ ProfileReturns
    \/ WriteModelRows
    \/ WriteServerRows

Spec == Init /\ [][Next]_vars

\* AggSpec: the aggregator's calls, beside an Analyzer that stays idle
AggSpec == Init /\ [][AggNext]_vars

\* ConfigSpec: the calls on a PerfAnalyzerConfig, beside the same
ConfigSpec == Init /\ [][ConfigNext]_vars

----------------------------------------------------------------------------
(* Claims about the profiling cycles, checked under Spec *)

Last(s) == s[Len(s)]

\* the cycle that has just reached its caller ended in perf_analyzer.run raising
WorkloadFailed == pc = "idle" /\ events # <<>> /\ Last(events) = "run raised"

\* event a comes before every event b of the running cycle
Precedes(a, b) ==
    \A j \in DOMAIN events : events[j] \in b => \E i \in 1..(j - 1) : events[i] \in a

\* C1: when perf_analyzer.run fails, the monitor started for the cycle has
\* been stopped exactly once by the time the failure reaches the caller.
C1_SamplerStoppedOnFailure ==
    WorkloadFailed => monitors[Current].stops = 1 /\ monitors[Current].status # "recording"

\* C2: in every cycle the monitor is started before the workload (or the
\* idle wait) starts, stopped after it ends, and its records are read only
\* after the stop; the monitor is recording whenever the workload or the
\* idle wait is active.
C2_SamplingBracketsWorkload ==
    /\ Precedes({"start_recording_metrics"}, {"run", "sleep"})
    /\ Precedes({"run", "sleep"}, {"run returned", "sleep returned", "run raised"})
    /\ Precedes({"run returned", "sleep returned"}, {"stop_recording_metrics"})
    /\ Precedes({"stop_recording_metrics"}, {"insert"})
    /\ pc \in {"running", "sleeping"} => monitors[Current].status = "recording"
    /\ pc \in {"stopped", "profiled"} => monitors[Current].status = "stopped"

\* C2 witness: a model cycle that took a sample has gone through all five
\* events and holds the reduced results.
C2_Witness ==
    /\ pc = "profiled"
    /\ events = <<"DCGMMonitor", "PerfAnalyzerConfig", "start_recording_metrics", "run",
                  "run returned", "stop_recording_metrics", "insert">>
    /\ cycle.dcgm_records # <<>>
    /\ monitors[Current].stops = 1

\* C3: on every exit path of profile_model and profile_server_only the
\* monitor of the cycle is destroyed exactly once, and not before it has
\* been stopped.
C3_SamplerDestroyedOnce ==
    /\ \A i \in DOMAIN outcome : monitors[i].destroys = 1
    /\ \A i \in DOMAIN monitors : monitors[i].destroys > 0 => monitors[i].stops > 0

\* C4: every failure of perf_analyzer.run reaches the caller of the cycle as
\* a TritonModelAnalyzerException.
C4_WorkloadFailureIsDomainFailure ==
    WorkloadFailed => Last(outcome).result = "TritonModelAnalyzerException"

\* C5: only a cycle that ends normally appends rows, and it leaves the rows
\* of earlier cycles in place: any step that changes a table completes a
\* cycle with "ok" and extends each table.
Extends(old, new) ==
    /\ new.headers = old.headers
    /\ Len(new.rows) >= Len(old.rows)
    /\ SubSeq(new.rows, 1, Len(old.rows)) = old.rows

C5_FailedCycleAppendsNoRow ==
    [][/\ tables' # tables =>
             /\ Len(outcome') = Len(outcome) + 1
             /\ Last(outcome').result = "ok"
       /\ Extends(tables.model_gpu_metrics, tables'.model_gpu_metrics)
       /\ Extends(tables.server_gpu_metrics, tables'.server_gpu_metrics)
       /\ Extends(tables.model_inference_metrics, tables'.model_inference_metrics)]_vars

\* C5 witness: a cycle that failed, then a model cycle that ended normally
\* and appended its rows.
C5_Witness ==
    /\ Len(outcome) = 2
    /\ outcome[1].result # "ok"
    /\ outcome[2] = [kind |-> "model", result |-> "ok"]
    /\ Len(tables.model_inference_metrics.rows) = 1
    /\ Len(tables.model_gpu_metrics.rows) = 1

----------------------------------------------------------------------------
(* Claims about the RecordAggregator, checked under AggSpec *)

\* the bucket of a record type, empty when the aggregator has none
BucketOrEmpty(recs, t) == IF DictHas(recs, t) THEN Bucket(recs, t) ELSE <<>>

\* A record type has never been inserted: no call removes a record, so its
\* bucket is absent or empty.
NeverInserted(recs, t) == BucketOrEmpty(recs, t) = <<>>

\* what a reducer is to return on a non-empty list, stated without the
\* recursions of the model
Reduced(fn, values) ==
    IF fn \in {"max", Default}
    THEN CHOOSE m \in Range(values) : \A v \in Range(values) : m >= v
    ELSE IF fn = "min"
    THEN CHOOSE m \in Range(values) : \A v \in Range(values) : m <= v
    ELSE IF values = <<>> THEN 0
    ELSE LET partial[i \in 0..Len(values)] ==
                 IF i = 0 THEN 0 ELSE partial[i - 1] + values[i]
         IN  partial[Len(values)]

\* C6: filter_records and groupby never mutate the aggregator they are
\* called on: its record types, its buckets and so every total(tag) are the
\* same after the call as before, whatever the arguments.
C6_FilterAndGroupByLeaveSource ==
    [][ret'.op \in {"filter_records", "groupby"} => records' = records]_vars

\* C7: filter_records with record types only returns exactly the requested
\* buckets, each as in the source, and fails when a requested record type
\* has never been inserted.
TypesOnly == ret.op = "filter_records" /\ ~Falsy(ret.a1) /\ Falsy(ret.a2)

C7_FilterByTypesOnly ==
    TypesOnly =>
        IF \E t \in Range(ret.a1.list) : NeverInserted(records, t)
        THEN ret.err # "none"
        ELSE /\ ret.err = "none"
             /\ DictKeys(ret.val) = Range(ret.a1.list)
             /\ \A t \in Range(ret.a1.list) : Bucket(ret.val, t) = Bucket(records, t)

\* C8: groupby returns the distinct keys of the bucket, and for each key the
\* reduction of the values of exactly the records with that key, in order.
Group(rs, fn, key) == SelectSeq(rs, LAMBDA r : KeyOf(fn, r) = key)

C8_GroupByPartition ==
    (ret.op = "groupby" /\ ret.err = "none") =>
        LET rs == BucketOrEmpty(records, ret.a1)
        IN  /\ DOMAIN ret.val = {KeyOf(ret.a2, rs[i]) : i \in DOMAIN rs}
            /\ \A key \in DOMAIN ret.val :
                   ret.val[key] = Reduced(ret.a3, ValuesOf(Group(rs, ret.a2, key)))

\* C8 witness: GPUUsedMemory [1, 2] on gpu0 and [1] on gpu1 grouped by
\* device with max give {gpu0: 2, gpu1: 1}.
C8_Witness ==
    /\ ret.op = "groupby" /\ ret.err = "none"
    /\ ret.a1 = "GPUUsedMemory" /\ ret.a2 = "gpu_device_id" /\ ret.a3 = Default
    /\ Len(BucketOrEmpty(records, "GPUUsedMemory")) = 3
    /\ DOMAIN ret.val = {"gpu0", "gpu1"}
    /\ ret.val["gpu0"] = 2 /\ ret.val["gpu1"] = 1

\* C9: groupby on a record type whose bucket is absent or empty fails
\* instead of returning a mapping.
C9_GroupByEmptyFails ==
    (ret.op = "groupby" /\ NeverInserted(records, ret.a1)) => ret.err # "none"

\* C10 as stated: aggregate returns one entry per requested record type, or
\* per known record type when record_types is omitted, each the reduction
\* of the bucket's values.
AggregateReduces(types) ==
    /\ DictKeys(ret.val) = types
    /\ \A t \in types :
           DictGet(ret.val, t) = Reduced(ret.a2, ValuesOf(BucketOrEmpty(records, t)))

TypesAndFilters ==
    /\ ret.op = "filter_records"
    /\ ~Falsy(ret.a1) /\ ~Falsy(ret.a2)
    /\ Len(ret.a1.list) = Len(ret.a2.list)

Kept(rs, f) == SelectSeq(rs, LAMBDA r : Holds(f, r))

C11_FilterByPredicates ==
    TypesAndFilters =>
        /\ ret.err = "none"
        /\ \A i \in DOMAIN ret.a1.list :
               BucketOrEmpty(ret.val, ret.a1.list[i]) =
                   Kept(BucketOrEmpty(records, ret.a1.list[i]), ret.a2.list[i])
        /\ \A t \in DictKeys(ret.val) \ Range(ret.a1.list) : Bucket(ret.val, t) = <<>>

\* C12: total(record_type) for a record type that was never inserted fails,
\* whatever calls came before it.
C12_TotalOfUnknownTypeFails ==
    (ret.op = "total" /\ ret.a1 # None /\ NeverInserted(records, ret.a1)) =>
        ret.err # "none"

\* C13: record_types() is exactly the set of record types that received an
\* insert; filter_records, groupby, aggregate and total add none to it.
C13_RecordTypesAreInsertedTypes ==
    ret.op = "record_types" =>
        Range(ret.val) = {t \in AggTypes : ~NeverInserted(records, t)}

\* C14: in the aggregator, and in every aggregator filter_records returns,
\* total() is the sum of total(record_type) over the known record types, no
\* total(record_type) of a known record type fails, and every record of a
\* bucket has the record type of the bucket.
SumOver(S, f(_)) ==
    LET sum[T \in SUBSET S] ==
            IF T = {} THEN 0
            ELSE LET t == CHOOSE x \in T : TRUE IN f(t) + sum[T \ {t}]
    IN  sum[S]

BucketIntegrity(recs) ==
    /\ Total(recs, None).err = "none"
    /\ \A t \in DictKeys(recs) : Total(recs, t).err = "none"
    /\ Total(recs, None).val = SumOver(DictKeys(recs), LAMBDA t : Total(recs, t).val)
    /\ \A i \in DOMAIN recs : \A j \in DOMAIN recs[i].v : recs[i].v[j].type = recs[i].k

C14_BucketIntegrity ==
    /\ BucketIntegrity(records)
    /\ (ret.op = "filter_records" /\ ret.err = "none") => BucketIntegrity(ret.val)

\* C14 witness: three records of two record types are in, and a filter with
\* one criterion per record type has returned an aggregator with both buckets.
C14_Witness ==
    /\ Total(records, None).val = 3
    /\ ret.op = "filter_records" /\ ret.err = "none"
    /\ Len(ret.a1.list) = 2 /\ Len(ret.a2.list) = 2
    /\ DictKeys(ret.val) = AggTypes
    /\ Total(ret.val, None).val >= 2

----------------------------------------------------------------------------
(* Further claims about the profiling cycles, checked under Spec *)

\* the values of the records of rs with record type t, and on device d
TypeValues(rs, t) == ValuesOf(SelectSeq(rs, LAMBDA r : r.type = t))
DeviceValues(rs, t, d) ==
    ValuesOf(SelectSeq(rs, LAMBDA r : r.type = t /\ r.device = d))

\* C15: the results _profile returns are computed from the samples the
\* cycle's stop_recording_metrics returned and from the records the cycle's
\* perf_analyzer.run returned, and from nothing else: one entry per DCGM
\* tag, mapping each device sampled in this cycle to the maximum of its
\* samples of this cycle, and one entry per record type the run returned,
\* the maximum of the values it returned.
C15_ResultsFromOwnCycle ==
    pc = "profiled" =>
        /\ DictKeyList(cycle.records_groupby_gpu) = analyzer.dcgm_tags
        /\ \A t \in Range(analyzer.dcgm_tags) :
               LET g == DictGet(cycle.records_groupby_gpu, t)
               IN  /\ DOMAIN g = {d \in Devices :
                                     DeviceValues(cycle.dcgm_records, t, d) # <<>>}
                   /\ \A d \in DOMAIN g :
                          g[d] = Reduced(Default, DeviceValues(cycle.dcgm_records, t, d))
        /\ DictKeys(cycle.inference_metrics) =
               {t \in PerfTypes : TypeValues(cycle.perf_records, t) # <<>>}
        /\ \A t \in DictKeys(cycle.inference_metrics) :
               DictGet(cycle.inference_metrics, t) =
                   Reduced(Default, TypeValues(cycle.perf_records, t))

\* C15 witness: the first cycle sampled 2 on gpu0 and measured a throughput
\* of 2 (its rows say so); the second sampled 1 and measured 1, and its
\* results are 1 and 1.
C15_Witness ==
    /\ pc = "profiled" /\ Len(outcome) = 1
    /\ tables.model_gpu_metrics.rows = <<<<"resnet50", "1", "4", "2", "gpu0">>>>
    /\ tables.model_inference_metrics.rows = <<<<"resnet50", "1", "4", "2">>>>
    /\ cycle.dcgm_records = <<GPURecord("GPUUsedMemory", "gpu0", 1)>>
    /\ cycle.perf_records = <<PerfRecord("PerfThroughput", 1)>>
    /\ DictGet(cycle.records_groupby_gpu, "GPUUsedMemory")["gpu0"] = 1
    /\ cycle.inference_metrics = <<[k |-> "PerfThroughput", v |-> 1]>>

\* C16: a server-only cycle never invokes perf_analyzer.run, the inference
\* metrics _profile returns to it are empty, and it appends rows to the
\* server GPU table only: one per device sampled in the cycle.
DevicesSampled(rs) == {rs[i].device : i \in DOMAIN rs}

C16_ServerOnlyCycle ==
    /\ [](cycle.kind = "server" =>
             /\ \A i \in DOMAIN events : events[i] \notin {"run", "run returned", "run raised"}
             /\ cycle.perf_records = <<>>
             /\ pc = "profiled" => cycle.inference_metrics = <<>>)
    /\ [][cycle.kind = "server" =>
             /\ tables'.model_gpu_metrics = tables.model_gpu_metrics
             /\ tables'.model_inference_metrics = tables.model_inference_metrics
             /\ tables' # tables =>
                    LET old == tables.server_gpu_metrics.rows
                        new == tables'.server_gpu_metrics.rows
                    IN  /\ Len(new) = Len(old) + Cardinality(DevicesSampled(cycle.dcgm_records))
                        /\ SubSeq(new, 1, Len(old)) = old
                        /\ {Last(new[i]) : i \in (Len(old) + 1)..Len(new)} =
                               DevicesSampled(cycle.dcgm_records)]_vars

\* C16 witness: a server-only cycle that sampled gpu1 has ended normally
\* with one row in the server GPU table and none in the two model tables.
C16_Witness ==
    /\ outcome = <<[kind |-> "server", result |-> "ok"]>>
    /\ events = <<"DCGMMonitor", "start_recording_metrics", "sleep", "sleep returned",
                  "stop_recording_metrics", "insert", "add_row">>
    /\ tables.server_gpu_metrics.rows = <<<<"triton-server", "0", "0", "1", "gpu1">>>>
    /\ tables.model_gpu_metrics.rows = <<>>
    /\ tables.model_inference_metrics.rows = <<>>

\* the rows a step has appended to a table
NewRows(old, new) == SubSeq(new.rows, Len(old.rows) + 1, Len(new.rows))

\* the parameter columns of the running cycle
ParamsOf(c) ==
    IF c.kind = "server" THEN <<"triton-server", "0", "0">>
    ELSE <<DictGet(c.run_config, "model-name"), DictGet(c.run_config, "batch-size"),
           DictGet(c.run_config, "concurrency-range")>>

\* the row of device d: the parameters, the device's value of each DCGM tag
\* in the configured order, the device id
GpuRowInOrder(d) ==
    LET tags == SelectSeq(analyzer.dcgm_tags,
                          LAMBDA t : d \in DOMAIN DictGet(cycle.records_groupby_gpu, t))
    IN  ParamsOf(cycle) \o
        [i \in DOMAIN tags |-> ToString(DictGet(cycle.records_groupby_gpu, tags[i])[d])] \o
        <<d>>

\* the inference row: the parameters, then the value of each perf tag in
\* the configured order
InferenceRowInOrder ==
    LET tags == SelectSeq(analyzer.perf_tags,
                          LAMBDA t : DictHas(cycle.inference_metrics, t))
    IN  ParamsOf(cycle) \o
        [i \in DOMAIN tags |-> ToString(DictGet(cycle.inference_metrics, tags[i]))]

\* C17: every row a cycle appends lists the parameter columns, then the
\* metric values in the configured order of the metrics (the order of the
\* table's headers), then the device id for the GPU tables; the inference
\* row is in that order whatever the order of the records perf_analyzer.run
\* returned.
C17_RowsInConfiguredOrder ==
    [][tables' # tables =>
          /\ \A t \in {"model_gpu_metrics", "server_gpu_metrics"} :
                 LET rows == NewRows(tables[t], tables'[t])
                 IN  \A i \in DOMAIN rows : rows[i] = GpuRowInOrder(Last(rows[i]))
          /\ LET rows == NewRows(tables.model_inference_metrics,
                                 tables'.model_inference_metrics)
             IN  \A i \in DOMAIN rows : rows[i] = InferenceRowInOrder]_vars

\* the keys a PerfAnalyzerConfig supports
SupportedKeys == Range(ArgKeyList) \cup DictKeys(InputToOptions) \cup DictKeys(InputToVerbose)

\* profile_model has ended in _create_perf_config
ConfigRejected == pc = "idle" /\ events = <<"DCGMMonitor", "PerfAnalyzerConfig">>

\* C18: a run_config with a key the PerfAnalyzerConfig does not support is
\* rejected with a TritonModelAnalyzerException before the monitor is
\* started and before perf_analyzer.run: setting the key raises and leaves
\* the values set so far as they were, the cycle never reaches _profile, and
\* it appends no row.
C18_UnsupportedKeyRejected ==
    /\ [](/\ \A run_config \in RunConfigs : \A n \in DOMAIN run_config :
                 LET before == CreatePerfConfigLoop(PerfAnalyzerConfig,
                                                    SubSeq(run_config, 1, n - 1))
                     r == SetItem(before.config, run_config[n].k, run_config[n].v)
                 IN  (before.err = "none" /\ run_config[n].k \notin SupportedKeys) =>
                         /\ r.err = "TritonModelAnalyzerException"
                         /\ r.config = before.config
                         /\ CreatePerfConfig(run_config).err = "TritonModelAnalyzerException"
          /\ cycle.kind = "model" => DictKeys(cycle.run_config) \subseteq SupportedKeys
          /\ ConfigRejected =>
                 /\ Last(outcome).result = "TritonModelAnalyzerException"
                 /\ monitors[Current].status = "created"
                 /\ monitors[Current].records = <<>>)
    /\ [][ConfigRejected' => tables' = tables]_vars

\* C18 witness: after a model cycle that ended normally, a run_config with
\* the key "gpus" has been rejected; the monitor of the cycle was never
\* started and the rows of the first cycle are all there is.
C18_Witness ==
    /\ ConfigRejected
    /\ outcome = <<[kind |-> "model", result |-> "ok"],
                   [kind |-> "model", result |-> "TritonModelAnalyzerException"]>>
    /\ monitors[2].status = "created"
    /\ Len(tables.model_inference_metrics.rows) = 1
    /\ \E rc \in RunConfigs : "gpus" \in DictKeys(rc) /\ "gpus" \notin SupportedKeys

\* C21: at most one monitor is recording at any time, over any sequence of
\* cycles, failed ones included: when a cycle starts its monitor, no monitor
\* of an earlier cycle is still recording.
C21_AtMostOneSamplerRecording ==
    \A i, j \in DOMAIN monitors :
        (monitors[i].status = "recording" /\ monitors[j].status = "recording") => i = j

\* C24: every row of an output table has as many values as the table has
\* headers.
C24_RowLengthIsHeaderLength ==
    \A t \in {"model_gpu_metrics", "server_gpu_metrics", "model_inference_metrics"} :
        \A i \in DOMAIN tables[t].rows : Len(tables[t].rows[i]) = Len(tables[t].headers)

----------------------------------------------------------------------------
(* Further claims about the RecordAggregator, checked under AggSpec *)

\* C19: filter_records fails with the module's exception for a wrong arity
\* when record types and filters are both given with different lengths, and
\* for an invalid argument when filters are given without record types; it
\* returns no aggregator in either case.
C19_FilterArityErrors ==
    ret.op = "filter_records" =>
        /\ (~Falsy(ret.a1) /\ ~Falsy(ret.a2) /\ Len(ret.a1.list) # Len(ret.a2.list)) =>
               ret.err = "TritonModelAnalyzerException"
        /\ (ret.a1.none /\ ~Falsy(ret.a2)) =>
               ret.err = "TritonModelAnalyzerException"

\* C20: filtering an aggregator without arguments, and the result again
\* without arguments, gives an aggregator with the record types, the
\* buckets (records and order) and the totals of the first; neither call
\* changes the aggregator it is made on.
SameContents(a, b) ==
    /\ DictKeys(a) = DictKeys(b)
    /\ Len(a) = Len(b)
    /\ \A t \in DictKeys(a) :
           /\ Bucket(a, t) = Bucket(b, t)
           /\ Total(a, t) = Total(b, t)
    /\ Total(a, None).val = Total(b, None).val

C20_FilterTwice ==
    (ret.op = "filter_records" /\ Falsy(ret.a1) /\ Falsy(ret.a2)) =>
        LET twice == FilterRecords(ret.val, Omitted, Omitted)
        IN  /\ ret.err = "none" /\ twice.err = "none"
            /\ SameContents(twice.val, records)
            /\ SameContents(twice.self, ret.val)
            /\ SameContents(ret.val, records)

\* C20 witness: an aggregator with two GPUUsedMemory records, one
\* PerfThroughput record has been filtered without arguments.
C20_Witness ==
    /\ ret.op = "filter_records" /\ ret.err = "none"
    /\ ret.a1.none /\ ret.a2.none
    /\ DictKeys(records) = AggTypes
    /\ Len(Bucket(records, "GPUUsedMemory")) = 2
    /\ Len(Bucket(records, "PerfThroughput")) = 1
    /\ Total(FilterRecords(ret.val, Omitted, Omitted).val, None).val = 3

\* C22: an aggregator filter_records returned, called without arguments or
\* with record types only, is independent of its source: an insert into it
\* leaves the source as it was, and an insert into the source leaves it as
\* it was.
C22_FilteredIsIndependent ==
    [][/\ ret'.op = "insert into filtered" => records' = records
       /\ ret'.op = "insert into source" => ret'.val = ret.val]_vars

\* C23: a call on the aggregator that ends in an exception leaves its record
\* types and its buckets as they were before the call.
C23_FailedCallLeavesAggregator ==
    [][ret'.err # "none" => records' = records]_vars

----------------------------------------------------------------------------
(* Claims about the PerfAnalyzerConfig, checked under ConfigSpec *)

\* the items of a dict whose value is not None
SetItems(d) == SelectSeq(d, LAMBDA e : e.v # None)

\* C25: after any sequence of assignments to supported keys, to_cli_string
\* has an entry for exactly the arguments whose value is not None, the
\* single dashed options first, then the verbose flags, then the double
\* dashed arguments; and config[key] is the value last assigned to key.
C25_CliStringOfSetArguments ==
    /\ perf_config.call.op = "to_cli_string" =>
           perf_config.call.val =
               Join(OptionEntries(SetItems(perf_config.obj.options)) \o
                    VerboseEntries(SetItems(perf_config.obj.verbose)) \o
                    ArgEntries(SetItems(perf_config.obj.args)))
    /\ (perf_config.call.op = "getitem" /\ perf_config.call.key \in SupportedKeys) =>
           /\ perf_config.call.err = "none"
           /\ perf_config.call.val = perf_config.assigned[perf_config.call.key]

====
